---- MODULE Spec2Model ----
(***************************************************************************)
(* Model of the warehouse inventory ledger: amazon_inventory.py (record    *)
(* store, add/remove/update, derived views, decorators), main.py (menu     *)
(* loop) and data_faker.py (the producer of the initial CSV file).         *)
(*                                                                         *)
(* Spec     : a script that holds `data = load_data()` and calls the       *)
(*            module's functions on it, as the module docstring shows.     *)
(* MainSpec : the interactive menu loop of main.py.                        *)
(***************************************************************************)
EXTENDS Integers, Sequences, FiniteSets, TLC

VARIABLES data, store, saved, minted, call, pre, out, pc, datesok

vars == <<data, store, saved, minted, call, pre, out, pc, datesok>>

\* Number of records ever created (generated by data_faker or minted by add_item).
MaxRecords == 2

-----------------------------------------------------------------------------
(* Python values held in a record's fields and passed as arguments.        *)

None == [t |-> "none", s |-> "", n |-> 0]
StrV(x) == [t |-> "str", s |-> x, n |-> 0]
IntV(k) == [t |-> "int", s |-> "", n |-> k]
\* a float with two decimals, held as its number of hundredths
FloatV(c) == [t |-> "float", s |-> "", n |-> c]

\* The object a variable or a return value refers to: None or a list of rows.
NoneRef == [t |-> "none", rows |-> <<>>]
ListRef(rows) == [t |-> "list", rows |-> rows]

\* str(x) of a float rounded to two decimals: 9.99 -> "9.99", 1.5 -> "1.5", 10.0 -> "10.0"
FloatStr(c) ==
    LET whole == c \div 100
        frac == c % 100
    IN  IF frac % 10 = 0 THEN ToString(whole) \o "." \o ToString(frac \div 10)
        ELSE IF frac < 10 THEN ToString(whole) \o ".0" \o ToString(frac)
        ELSE ToString(whole) \o "." \o ToString(frac)

\* What csv.writer puts in a cell: None as the empty string, a string as
\* itself, anything else as str(value).
CsvCell(v) ==
    CASE v.t = "none" -> ""
      [] v.t = "str" -> v.s
      [] v.t = "int" -> ToString(v.n)
      [] v.t = "float" -> FloatStr(v.n)

\* str.lower() on the item names of the model
Lower(s) ==
    CASE s = "Widget" -> "widget"
      [] s = "WIDGET" -> "widget"
      [] s = "Tablet" -> "tablet"
      [] OTHER -> s

\* datetime.strptime(s, '%Y-%m-%d'): the date as the number yyyymmdd, or
\* -1 where strptime raises ValueError.
ParseDate(s) ==
    CASE s = "2023-06-01" -> 20230601
      [] s = "2024-01-09" -> 20240109
      [] s = "2024-01-10" -> 20240110
      [] OTHER -> -1

DateKey(row) ==
    IF row.expiration_date.t = "str" THEN ParseDate(row.expiration_date.s) ELSE -1

-----------------------------------------------------------------------------
(* Record store: the CSV file is a header row and rows of cells.           *)

fieldnames == <<"id", "item", "gtin", "mpn", "brand", "quantity", "expiration_date", "price">>

FieldSet == {fieldnames[i] : i \in 1..Len(fieldnames)}

\* a writer that puts the price cell before the quantity cell
WriteRow_swapped(row) ==
    [i \in 1..Len(fieldnames) |->
        CsvCell(row[IF fieldnames[i] = "quantity" THEN "price"
                    ELSE IF fieldnames[i] = "price" THEN "quantity"
                    ELSE fieldnames[i]])]

\* DictWriter.writerow: the row's values in fieldnames order, as cells
WriteRow(row) == [i \in 1..Len(fieldnames) |-> CsvCell(row[fieldnames[i]])]

save_data(rows) ==
    [header |-> fieldnames,
     rows |-> [i \in 1..Len(rows) |-> WriteRow(rows[i])]]

\* DictReader: each row as a dict keyed by the file's header, every value a string
ReadRow(header, cells) ==
    [k \in {header[i] : i \in 1..Len(header)} |->
        StrV(cells[CHOOSE i \in 1..Len(header) : header[i] = k])]

load_data(file) ==
    [i \in 1..Len(file.rows) |-> ReadRow(file.header, file.rows[i])]

\* Faker's uuid4/ean13/ean8/company for the k-th record created
Mint(k) ==
    [id |-> StrV("uuid-" \o ToString(k)),
     gtin |-> StrV("gtin-" \o ToString(k)),
     mpn |-> StrV("mpn-" \o ToString(k)),
     brand |-> StrV("brand-" \o ToString(k))]

NewRecord(k, item, quantity, expiration_date, price) ==
    [id |-> Mint(k).id, item |-> item, gtin |-> Mint(k).gtin, mpn |-> Mint(k).mpn,
     brand |-> Mint(k).brand, quantity |-> quantity,
     expiration_date |-> expiration_date, price |-> price]

-----------------------------------------------------------------------------
(* What one call did: the object passed as `data` after the call, the file  *)
(* after the call, the returned object, the exception raised ("" if none),  *)
(* whether the decorated function's own body ran, the row lists handed to   *)
(* save_data, the notice printed, and the rows rendered.                    *)

Outcome(d, file, ret, ran, saves, notice, shown) ==
    [data |-> d, file |-> file, ret |-> ret, raised |-> "", ran |-> ran,
     saves |-> saves, notice |-> notice, shown |-> shown]

Raise(d, file, exc, ran) ==
    [data |-> d, file |-> file, ret |-> NoneRef, raised |-> exc, ran |-> ran,
     saves |-> <<>>, notice |-> "", shown |-> <<>>]

\* progress_bar: prints the bar, then returns what the wrapped function returns
progress_bar(o) == o

\* add_item: data.append({...}); save_data(data); print(...); no return statement
add_item(d, file, k, item, quantity, expiration_date, price) ==
    progress_bar(
        IF d.t = "none" THEN Raise(d, file, "AttributeError", TRUE)
        ELSE LET rows == Append(d.rows, NewRecord(k, item, quantity, expiration_date, price))
             IN  Outcome(ListRef(rows), save_data(rows), NoneRef, TRUE, <<rows>>,
                         "added successfully", <<>>))

\* kwargs.get('item'): the name when it was passed by keyword, else None
KwargsGetItem(style, item) == IF style = "kw" THEN item ELSE None

\* any(d['item'] == item for d in data)
ItemPresent(rows, item) == \E i \in 1..Len(rows) : rows[i].item = item

\* a guard that compares names the way remove_item's filter does
check_item_present_lower(d, file, kwitem, body) ==
    IF d.t = "none" THEN Raise(d, file, "TypeError", FALSE)
    ELSE IF \E i \in 1..Len(d.rows) : Lower(d.rows[i].item.s) = Lower(kwitem.s) THEN body
    ELSE Outcome(d, file, NoneRef, FALSE, <<>>, "not found", <<>>)

\* check_item_present.wrapper(data, *args, **kwargs); body is func(data, *args, **kwargs)
check_item_present(d, file, kwitem, body) ==
    IF d.t = "none" THEN Raise(d, file, "TypeError", FALSE)
    ELSE IF ItemPresent(d.rows, kwitem) THEN body
    ELSE Outcome(d, file, NoneRef, FALSE, <<>>, "not found", <<>>)

\* d['item'].lower() != item.lower()
KeepOnRemove(row, item) == Lower(row.item.s) # Lower(item.s)

\* the body of remove_item: rebinds the local name data, saves it, returns nothing
remove_item_body(d, file, item) ==
    LET kept == SelectSeq(d.rows, LAMBDA r : KeepOnRemove(r, item))
    IN  Outcome(d, save_data(kept), NoneRef, TRUE, <<kept>>, "removed successfully", <<>>)

remove_item(d, file, style, item) ==
    progress_bar(
        check_item_present(d, file, KwargsGetItem(style, item),
                           remove_item_body(d, file, item)))

\* an update that assigns the argument whether or not it was given
Patch_always(old, arg) == arg

\* one field of update_item: overwritten unless the argument is None
Patch(old, arg) == IF arg # None THEN arg ELSE old

UpdateRow(row, item, quantity, expiration_date, price) ==
    IF row.item = item
    THEN [row EXCEPT !.quantity = Patch(@, quantity),
                     !.expiration_date = Patch(@, expiration_date),
                     !.price = Patch(@, price)]
    ELSE row

\* the body of update_item: mutates the rows in place, saves, returns nothing
update_item_body(d, file, item, quantity, expiration_date, price) ==
    LET rows == [i \in 1..Len(d.rows) |->
                    UpdateRow(d.rows[i], item, quantity, expiration_date, price)]
    IN  Outcome(ListRef(rows), save_data(rows), NoneRef, TRUE, <<rows>>, "", <<>>)

update_item(d, file, style, item, quantity, expiration_date, price) ==
    progress_bar(
        check_item_present(d, file, KwargsGetItem(style, item),
                           update_item_body(d, file, item, quantity, expiration_date, price)))

\* strptime raises ValueError on some row
DateError(rows) == \E i \in 1..Len(rows) : DateKey(rows[i]) = -1

\* where a stable sort puts r into the already sorted s: after every row
\* whose key is not greater
InsertByDate(s, r) ==
    LET k == Cardinality({i \in 1..Len(s) : DateKey(s[i]) <= DateKey(r)})
    IN  SubSeq(s, 1, k) \o <<r>> \o SubSeq(s, k + 1, Len(s))

RECURSIVE sort_by_expiration_date(_)
\* sorted(data, key=parsed expiration date), a stable sort
sort_by_expiration_date(rows) ==
    IF rows = <<>> THEN <<>>
    ELSE InsertByDate(sort_by_expiration_date(SubSeq(rows, 1, Len(rows) - 1)),
                      rows[Len(rows)])

\* a report that sorts the caller's list in place (data.sort) instead of a copy
get_full_report_inplace(d, file) ==
    progress_bar(
        IF d.t = "none" \/ d.rows = <<>>
        THEN Outcome(d, file, NoneRef, TRUE, <<>>, "No items in the inventory.", <<>>)
        ELSE IF DateError(d.rows) THEN Raise(d, file, "ValueError", TRUE)
        ELSE Outcome(ListRef(sort_by_expiration_date(d.rows)), file, NoneRef, TRUE, <<>>, "",
                     sort_by_expiration_date(d.rows)))

get_full_report(d, file) ==
    progress_bar(
        IF d.t = "none" \/ d.rows = <<>>
        THEN Outcome(d, file, NoneRef, TRUE, <<>>, "No items in the inventory.", <<>>)
        ELSE IF DateError(d.rows) THEN Raise(d, file, "ValueError", TRUE)
        ELSE Outcome(d, file, NoneRef, TRUE, <<>>, "", sort_by_expiration_date(d.rows)))

search_item(d, file, item) ==
    progress_bar(
        IF d.t = "none" THEN Raise(d, file, "TypeError", TRUE)
        ELSE Outcome(d, file, NoneRef, TRUE, <<>>, "",
                     SelectSeq(d.rows, LAMBDA r : r.item = item)))

\* a filter that counts a record dated today as expired
IsExpired_inclusive(row, today) == DateKey(row) <= today

\* strptime(...).date() < today
IsExpired(row, today) == DateKey(row) < today

get_expired_items(d, file, today) ==
    progress_bar(
        IF d.t = "none" THEN Raise(d, file, "TypeError", TRUE)
        ELSE IF DateError(d.rows) THEN Raise(d, file, "ValueError", TRUE)
        ELSE LET expired_items == SelectSeq(d.rows, LAMBDA r : IsExpired(r, today))
             IN  IF expired_items = <<>>
                 THEN Outcome(d, file, ListRef(<<>>), TRUE, <<>>, "No expired items found.", <<>>)
                 ELSE Outcome(d, file, ListRef(sort_by_expiration_date(expired_items)), TRUE,
                              <<>>, "", sort_by_expiration_date(expired_items)))

\* export_to_pdf: iterates data to fill the table of the document
export_to_pdf(d, file) ==
    IF d.t = "none" THEN Raise(d, file, "TypeError", TRUE)
    ELSE Outcome(d, file, NoneRef, TRUE, <<>>, "", d.rows)

-----------------------------------------------------------------------------
(* Inputs *)

\* item names typed by the operator or passed by the script
Names == {"Widget", "widget", "Tablet"}

\* datetime.today().date(), as yyyymmdd
Todays == {20240110, 20240111}

\* add_item(data, item, quantity, expiration_date, price) as a script calls
\* it: numbers as in the module docstring, or text; "n/a" is no calendar date
ScriptAddArgs ==
    { <<StrV("Widget"), IntV(10), StrV("2024-01-09"), FloatV(999)>>,
      <<StrV("widget"), StrV("7"), StrV("2024-01-10"), StrV("5.5")>>,
      <<StrV("Tablet"), IntV(10), StrV("n/a"), FloatV(999)>> }

\* quantity, expiration_date, price of an update_item call; None is "not given"
ScriptUpdateArgs ==
    { <<None, None, FloatV(999)>>,
      <<StrV("7"), StrV("2024-01-10"), StrV("5.5")>> }

\* what input() returns for the prompts of choice 1: always text
MainAddInputs ==
    { <<"Widget", "10", "2024-01-09", "9.99">>,
      <<"widget", "7", "2024-01-10", "5.5">>,
      <<"Tablet", "10", "n/a", "9.99">> }

\* what input() returns for the prompts of choice 3; "" is a blank line
MainUpdateInputs ==
    { <<"", "", "9.99">>,
      <<"7", "2024-01-10", "5.5">>,
      <<"", "", "">> }

\* the rows data_faker.generate_fake_data makes: a capitalised word, an int
\* quantity, a formatted date, a float price
FakeRows ==
    { <<StrV("Widget"), IntV(3), StrV("2023-06-01"), FloatV(150)>>,
      <<StrV("Tablet"), IntV(3), StrV("2024-01-09"), FloatV(150)>> }

generate_fake_data(choice) ==
    [i \in 1..Len(choice) |->
        NewRecord(i, choice[i][1], choice[i][2], choice[i][3], choice[i][4])]

\* save_fake_data writes the same header and rows as save_data
save_fake_data(rows) == save_data(rows)

Call(op, style, item, quantity, expiration_date, price, today) ==
    [op |-> op, style |-> style, item |-> item, quantity |-> quantity,
     expiration_date |-> expiration_date, price |-> price, today |-> today]

\* the date argument is absent or a calendar date
DateArgOk(e) == e = None \/ (e.t = "str" /\ ParseDate(e.s) # -1)

-----------------------------------------------------------------------------
(* State *)

\* data_faker seeds the file, then `data = load_data()`
Start(startpc) ==
    \E n \in 0..MaxRecords : \E choice \in [1..n -> FakeRows] :
        LET fake == generate_fake_data(choice)
            file == save_fake_data(fake)
        IN  /\ store = file
            /\ saved = fake
            /\ minted = Len(fake)
            /\ data = ListRef(load_data(file))
            /\ call = Call("load_data", "", None, None, None, None, 0)
            /\ pre = [data |-> NoneRef, store |-> file]
            /\ out = Outcome(NoneRef, file, ListRef(load_data(file)), TRUE, <<>>, "", <<>>)
            /\ pc = startpc
            /\ datesok = TRUE

Init == Start("script")

\* the bookkeeping every call shares: the file and the last saved rows follow
\* the call's outcome; call, pre and out record the call; datesok turns
\* false once a date that is no calendar date has been supplied
Record(c, o) ==
    /\ call' = c
    /\ pre' = [data |-> data, store |-> store]
    /\ out' = o
    /\ store' = o.file
    /\ saved' = IF o.saves = <<>> THEN saved ELSE o.saves[Len(o.saves)]
    /\ datesok' = (datesok /\ DateArgOk(c.expiration_date))

-----------------------------------------------------------------------------
(* A script calling the module on the list it holds, the name passed        *)
(* positionally ("pos", as in the module docstring) or by keyword ("kw").   *)

ScriptAdd ==
    \E a \in ScriptAddArgs :
        /\ pc = "script"
        /\ minted < MaxRecords
        /\ LET o == add_item(data, store, minted + 1, a[1], a[2], a[3], a[4])
           IN  /\ Record(Call("add_item", "pos", a[1], a[2], a[3], a[4], 0), o)
               /\ data' = o.data
        /\ minted' = minted + 1
        /\ UNCHANGED pc

ScriptRemove ==
    \E item \in Names, style \in {"pos", "kw"} :
        /\ pc = "script"
        /\ LET o == remove_item(data, store, style, StrV(item))
           IN  /\ Record(Call("remove_item", style, StrV(item), None, None, None, 0), o)
               /\ data' = o.data
        /\ UNCHANGED <<minted, pc>>

ScriptUpdate ==
    \E item \in Names, style \in {"pos", "kw"}, u \in ScriptUpdateArgs :
        /\ pc = "script"
        /\ LET o == update_item(data, store, style, StrV(item), u[1], u[2], u[3])
           IN  /\ Record(Call("update_item", style, StrV(item), u[1], u[2], u[3], 0), o)
               /\ data' = o.data
        /\ UNCHANGED <<minted, pc>>

ScriptReport ==
    /\ pc = "script"
    /\ LET o == get_full_report(data, store)
       IN  /\ Record(Call("get_full_report", "pos", None, None, None, None, 0), o)
           /\ data' = o.data
    /\ UNCHANGED <<minted, pc>>

ScriptSearch ==
    \E item \in Names :
        /\ pc = "script"
        /\ LET o == search_item(data, store, StrV(item))
           IN  /\ Record(Call("search_item", "pos", StrV(item), None, None, None, 0), o)
               /\ data' = o.data
        /\ UNCHANGED <<minted, pc>>

ScriptExpired ==
    \E today \in Todays :
        /\ pc = "script"
        /\ LET o == get_expired_items(data, store, today)
           IN  /\ Record(Call("get_expired_items", "pos", None, None, None, None, today), o)
               /\ data' = o.data
        /\ UNCHANGED <<minted, pc>>

\* load_data() called again; the script keeps the list it holds
ScriptLoad ==
    /\ pc = "script"
    /\ Record(Call("load_data", "", None, None, None, None, 0),
              Outcome(data, store, ListRef(load_data(store)), TRUE, <<>>, "", <<>>))
    /\ UNCHANGED <<data, minted, pc>>

Next ==
    \/ ScriptAdd
    \/ ScriptRemove
    \/ ScriptUpdate
    \/ ScriptReport
    \/ ScriptSearch
    \/ ScriptExpired
    \/ ScriptLoad

Spec == Init /\ [][Next]_vars

-----------------------------------------------------------------------------
(* main.py: the menu loop. An exception ends the process with a traceback   *)
(* ("crashed"); 'q' leaves the loop ("exited"); the operator may run the    *)
(* program again on the file it left.                                       *)

MainInit == Start("menu")

\* input() text, or None for a blank line (`quantity if quantity else None`)
BlankToNone(text) == IF text # "" THEN StrV(text) ELSE None

\* one pass of the loop: an exception leaves the loop, else `data` is rebound
\* (or kept) as the branch says
MainStep(c, o, newdata) ==
    /\ Record(c, o)
    /\ data' = IF o.raised # "" THEN data ELSE newdata
    /\ pc' = IF o.raised # "" THEN "crashed" ELSE "menu"

\* choice '1': data = add_item(data, item, quantity, expiration_date, price)
MainAdd ==
    \E a \in MainAddInputs :
        /\ pc = "menu"
        /\ minted < MaxRecords \/ data.t = "none"
        /\ LET o == add_item(data, store, minted + 1,
                             StrV(a[1]), StrV(a[2]), StrV(a[3]), StrV(a[4]))
           IN  /\ MainStep(Call("add_item", "pos", StrV(a[1]), StrV(a[2]), StrV(a[3]),
                                StrV(a[4]), 0), o, o.ret)
               /\ minted' = IF o.raised # "" THEN minted ELSE minted + 1

\* choice '2': data = remove_item(data, item=item)
MainRemove ==
    \E item \in Names :
        /\ pc = "menu"
        /\ LET o == remove_item(data, store, "kw", StrV(item))
           IN  MainStep(Call("remove_item", "kw", StrV(item), None, None, None, 0), o, o.ret)
        /\ UNCHANGED minted

\* choice '3': update_item(data, item=item, quantity=..., ...); data is not rebound
MainUpdate ==
    \E item \in Names, u \in MainUpdateInputs :
        /\ pc = "menu"
        /\ LET q == BlankToNone(u[1])
               e == BlankToNone(u[2])
               p == BlankToNone(u[3])
               o == update_item(data, store, "kw", StrV(item), q, e, p)
           IN  MainStep(Call("update_item", "kw", StrV(item), q, e, p, 0), o, o.data)
        /\ UNCHANGED minted

\* choice '4': pprint.pprint(data)
MainList ==
    /\ pc = "menu"
    /\ MainStep(Call("pprint", "pos", None, None, None, None, 0),
                Outcome(data, store, NoneRef, TRUE, <<>>, "", data.rows), data)
    /\ UNCHANGED minted

\* choice '5'
MainReport ==
    /\ pc = "menu"
    /\ LET o == get_full_report(data, store)
       IN  MainStep(Call("get_full_report", "pos", None, None, None, None, 0), o, o.data)
    /\ UNCHANGED minted

\* choice '6'
MainExpired ==
    \E today \in Todays :
        /\ pc = "menu"
        /\ LET o == get_expired_items(data, store, today)
           IN  MainStep(Call("get_expired_items", "pos", None, None, None, None, today),
                        o, o.data)
        /\ UNCHANGED minted

\* choice '7'
MainSearch ==
    \E item \in Names :
        /\ pc = "menu"
        /\ LET o == search_item(data, store, StrV(item))
           IN  MainStep(Call("search_item", "pos", StrV(item), None, None, None, 0), o, o.data)
        /\ UNCHANGED minted

\* choice '8'
MainExport ==
    /\ pc = "menu"
    /\ LET o == export_to_pdf(data, store)
       IN  MainStep(Call("export_to_pdf", "pos", None, None, None, None, 0), o, o.data)
    /\ UNCHANGED minted

\* any other text: print("Invalid choice. Please try again.")
MainInvalid ==
    /\ pc = "menu"
    /\ MainStep(Call("invalid", "", None, None, None, None, 0),
                Outcome(data, store, NoneRef, FALSE, <<>>, "Invalid choice. Please try again.",
                        <<>>), data)
    /\ UNCHANGED minted

\* choice 'q': break
MainQuit ==
    /\ pc = "menu"
    /\ pc' = "exited"
    /\ UNCHANGED <<data, store, saved, minted, call, pre, out, datesok>>

\* the program is started again: data = load_data()
MainRestart ==
    /\ pc \in {"crashed", "exited"}
    /\ Record(Call("load_data", "", None, None, None, None, 0),
              Outcome(NoneRef, store, ListRef(load_data(store)), TRUE, <<>>, "", <<>>))
    /\ data' = ListRef(load_data(store))
    /\ pc' = "menu"
    /\ UNCHANGED minted

MainNext ==
    \/ MainAdd
    \/ MainRemove
    \/ MainUpdate
    \/ MainList
    \/ MainReport
    \/ MainExpired
    \/ MainSearch
    \/ MainExport
    \/ MainInvalid
    \/ MainQuit
    \/ MainRestart

MainSpec == MainInit /\ [][MainNext]_vars

-----------------------------------------------------------------------------
(* Properties *)

Mutating == {"add_item", "remove_item", "update_item"}
Guarded == {"remove_item", "update_item"}
Views == {"get_full_report", "search_item", "get_expired_items"}

\* the rows the call was given
PreRows == pre.data.rows

\* some row given to the call has a name equal to the target but for case
PresentAnyCase == \E i \in 1..Len(PreRows) : Lower(PreRows[i].item.s) = Lower(call.item.s)

\* the rows given to the call whose name differs from the target even ignoring case
OtherNames == SelectSeq(PreRows, LAMBDA r : Lower(r.item.s) # Lower(call.item.s))

\* C1: at the end of every add, remove or update that passed its
\* precondition, the list the caller holds and the file hold the same records
\* in the same order (the file holds each field as text).
C1_MemoryMatchesStore ==
    (call.op \in Mutating /\ out.ran /\ out.raised = "")
        => (data.t = "list" /\ save_data(data.rows) = store)

\* C2: add returns the updated sequence (the prior records in order, then one
\* new record with the four supplied fields verbatim) and writes that same
\* sequence exactly once.
C2_AddReturnsUpdated ==
    (call.op = "add_item" /\ out.raised = "")
        => /\ out.ret.t = "list"
           /\ Len(out.ret.rows) = Len(PreRows) + 1
           /\ SubSeq(out.ret.rows, 1, Len(PreRows)) = PreRows
           /\ out.ret.rows[Len(out.ret.rows)].item = call.item
           /\ out.ret.rows[Len(out.ret.rows)].quantity = call.quantity
           /\ out.ret.rows[Len(out.ret.rows)].expiration_date = call.expiration_date
           /\ out.ret.rows[Len(out.ret.rows)].price = call.price
           /\ out.saves = <<out.ret.rows>>

\* C3: remove, given a set with a record of the target name in any
\* capitalisation, yields (returns, or leaves in the caller's list) the set
\* without the records of that name in any case, the others in their order,
\* and writes that reduced set.
C3_RemoveYieldsReduced ==
    (call.op = "remove_item" /\ call.style = "kw" /\ PresentAnyCase)
        => /\ out.ret = ListRef(OtherNames) \/ data = ListRef(OtherNames)
           /\ out.saves = <<OtherNames>>
           /\ store = save_data(OtherNames)

\* C4: remove and update with a target name that no record has (compared
\* case-sensitively) change neither the caller's list nor the file, write
\* nothing, do not run the wrapped function, print the notice and return None
\* without raising.
C4_NotFoundIsNoOp ==
    (call.op \in Guarded /\ ~ItemPresent(PreRows, call.item))
        => /\ data = pre.data
           /\ store = pre.store
           /\ out.saves = <<>>
           /\ ~out.ran
           /\ out.raised = ""
           /\ out.ret = NoneRef
           /\ out.notice = "not found"

\* a remove of a name absent in that spelling while a record has it in another
C4_Witness ==
    /\ call.op = "remove_item"
    /\ call.style = "kw"
    /\ ~ItemPresent(PreRows, call.item)
    /\ PresentAnyCase
    /\ out.notice = "not found"

C6_PositionalCallActs ==
    (call.op \in Guarded /\ call.style = "pos" /\ ItemPresent(PreRows, call.item))
        => (out.ran /\ out.saves # <<>>)

\* a record set as the data model wants it: text identifiers and name, an
\* integer quantity, a calendar date as text, a numeric price
WellFormed(rows) ==
    \A i \in 1..Len(rows) :
        /\ \A f \in {"id", "item", "gtin", "mpn", "brand"} : rows[i][f].t = "str"
        /\ rows[i].quantity.t = "int"
        /\ rows[i].price.t \in {"int", "float"}
        /\ DateKey(rows[i]) # -1

\* every field of every row is text
AllText(rows) == \A i \in 1..Len(rows) : \A f \in FieldSet : rows[i][f].t = "str"

\* C7 as stated: load after save(R) returns R itself for every well-formed R.
C7_RoundTripIdentity ==
    (call.op = "load_data" /\ WellFormed(saved)) => out.ret.rows = saved

\* C7 as amended: load after save(R) returns as many records as R, in R's
\* order, each with the eight fields and in each field the text csv writes
\* for R's value; so it returns R itself when every field of R is text.
C7_RoundTripAsText ==
    call.op = "load_data"
        => /\ out.ret.t = "list"
           /\ Len(out.ret.rows) = Len(saved)
           /\ \A i \in 1..Len(saved) :
                /\ DOMAIN out.ret.rows[i] = FieldSet
                /\ \A f \in FieldSet : out.ret.rows[i][f] = StrV(CsvCell(saved[i][f]))
           /\ AllText(saved) => out.ret.rows = saved

\* a load, by the running script, of rows saved with a number in a field
C7_Witness ==
    /\ call.op = "load_data"
    /\ pre.data.t = "list"
    /\ Len(saved) = 2
    /\ saved[2].price.t = "float"
    /\ saved[2].quantity.t = "int"
    /\ out.ret.rows # saved

\* the place in the rows given to the call of the row r (ids are distinct)
PlaceOf(r) == CHOOSE i \in 1..Len(PreRows) : PreRows[i] = r

\* C8: with today fixed and every date a calendar date, expired returns
\* exactly the records dated strictly before today, each once, ascending by
\* date, equal dates in their original order; without raising, also when
\* none qualifies.
C8_ExpiredExact ==
    (call.op = "get_expired_items" /\ ~DateError(PreRows))
        => LET r == out.ret.rows
           IN  /\ out.raised = ""
               /\ out.ret.t = "list"
               /\ \A i \in 1..Len(PreRows) :
                    (DateKey(PreRows[i]) < call.today) <=> (\E j \in 1..Len(r) : r[j] = PreRows[i])
               /\ Len(r) = Cardinality({i \in 1..Len(PreRows) : DateKey(PreRows[i]) < call.today})
               /\ \A j, k \in 1..Len(r) :
                    j < k => /\ DateKey(r[j]) <= DateKey(r[k])
                             /\ DateKey(r[j]) = DateKey(r[k]) => PlaceOf(r[j]) < PlaceOf(r[k])

\* a call that returned one record and left out a record dated today
C8_Witness ==
    /\ call.op = "get_expired_items"
    /\ ~DateError(PreRows)
    /\ \E i \in 1..Len(PreRows) : DateKey(PreRows[i]) = call.today
    /\ Len(out.ret.rows) = 1

\* C9: report, search and expired leave the caller's list as it was, records
\* and order, and write nothing to the file.
C9_ViewsReadOnly ==
    call.op \in Views
        => /\ data = pre.data
           /\ store = pre.store
           /\ out.saves = <<>>

\* a report that rendered the rows in another order than the list holds them
C9_Witness ==
    /\ call.op = "get_full_report"
    /\ out.shown # <<>>
    /\ out.shown # PreRows
    /\ data.rows = PreRows

\* C10: in the menu loop, while every stored and supplied date is a calendar
\* date, no choice raises: no choice leaves `data` in a state on which a
\* later choice fails.
C10_NoChoiceRaises ==
    datesok => (out.raised = "" /\ pc # "crashed")

====
